---- MODULE Spec2Model ----
(***************************************************************************)
(* Pollard-Strassen factoring (src/pollard_strassen.py) and its command    *)
(* line front end (src/main.py) as a state machine.                        *)
(*                                                                         *)
(* One run of pollard_strassen(N, B, max_memory) is a sequence of phases:  *)
(*   start -> selected -> clamped -> (trial division | tree -> evaluated   *)
(*         -> gcd -> backtracking) -> done | crashed                       *)
(* Optional values (Python None) are sequences: <<>> is None, <<v>> is v.  *)
(* Polynomials are coefficient sequences, constant term first, normalised  *)
(* (no leading zero coefficient), coefficients reduced modulo N.           *)
(***************************************************************************)
EXTENDS Integers, Sequences, FiniteSets

VARIABLES
    N,              \* the target (N_int / N_val)
    B,              \* optional bound
    max_memory,     \* optional memory budget in bytes
    pc,             \* position inside pollard_strassen
    L,              \* current step size
    L_pre,          \* step size chosen before the memory clamp
    target_source,  \* "bound" | "default N^(1/4)"
    L_mem_limit,    \* optional: the limit the budget implies
    coverage,       \* the printed L**2
    poly,           \* optional: result of product_tree
    values,         \* residues f(k*L) mod N
    g,              \* optional: the aggregate gcd
    k,              \* index of the backtracking loop
    result,         \* optional: the returned value
    via,            \* which return statement produced the result
    cli_pc,         \* position inside the command line program ("api": none)
    args,           \* the parsed argparse namespace and the RAM reading
    target,         \* optional: int(args.N)
    bound,          \* optional bound of the command line program
    max_mem_bytes,  \* optional memory budget of the command line program
    exit_status,    \* optional: the process exit status
    cli_error,      \* the exception or error exit the program took, if any
    core_calls      \* number of calls of pollard_strassen

coreVars == <<pc, L, L_pre, target_source, L_mem_limit, coverage, poly,
              values, g, k, result, via>>
inputVars == <<N, B, max_memory>>
cliVars == <<cli_pc, args, target, bound, max_mem_bytes, exit_status,
             cli_error, core_calls>>
vars == <<inputVars, coreVars, cliVars>>

None == <<>>
Some(v) == <<v>>
IsSome(o) == o # <<>>
Val(o) == o[1]

(***************************************************************************)
(* Program constants.                                                      *)
(***************************************************************************)
FIXED_OVERHEAD == 26214400
MINIMAL_L == 1000
SMALL_N_LIMIT == 1000

(***************************************************************************)
(* Bounds of the exploration.                                              *)
(***************************************************************************)
MaxSmallN == 120
MaxBigSpan == 12
MaxB == 10
MaxMemSteps == 6
MemStep == 5000
MaxL == 45
MaxX == 3
MaxTreeL == 8
MaxModulus == 12

(***************************************************************************)
(* Integer helpers: math.isqrt, int.bit_length, gcd.                       *)
(***************************************************************************)
RECURSIVE isqrtSearch(_, _, _)
isqrtSearch(n, lo, hi) ==
    \* largest r in lo..hi with r*r <= n, by bisection (lo*lo <= n < (hi+1)^2)
    IF lo = hi THEN lo
    ELSE LET mid == (lo + hi + 1) \div 2
         IN  IF mid * mid <= n THEN isqrtSearch(n, mid, hi)
             ELSE isqrtSearch(n, lo, mid - 1)

isqrt(n) == isqrtSearch(n, 0, IF n < 46340 THEN n ELSE 46340)

RECURSIVE bit_length(_)
bit_length(n) == IF n = 0 THEN 0 ELSE 1 + bit_length(n \div 2)

RECURSIVE gcd(_, _)
gcd(a, b) == IF b = 0 THEN a ELSE gcd(b, a % b)

\* a * b mod n for 0 <= a, b < n < 2^22, without leaving 32 bits
MulWide(a, b, n) ==
    LET b2 == b \div 262144
        b1 == (b \div 512) % 512
        b0 == b % 512
        t2 == (a * b2) % n
        t1 == (((t2 * 512) % n) + ((a * b1) % n)) % n
    IN  (((t1 * 512) % n) + ((a * b0) % n)) % n

MulMod(a, b, n) == IF n <= 46340 THEN (a * b) % n ELSE MulWide(a, b, n)

(***************************************************************************)
(* The arithmetic engine: polynomials modulo n.                            *)
(***************************************************************************)
RECURSIVE Normalize(_)
Normalize(p) ==
    IF p = <<>> THEN p
    ELSE IF p[Len(p)] = 0 THEN Normalize(SubSeq(p, 1, Len(p) - 1))
    ELSE p

\* ctx([c, 1]): the polynomial x + c
LinearPoly(c, n) == Normalize(<<c % n, 1 % n>>)

Degree(p) == Len(p) - 1

RECURSIVE ConvSum(_, _, _, _, _, _)
ConvSum(a, b, idx, i, acc, n) ==
    \* coefficient idx (1-based) of a*b: sum of a[i] * b[idx + 1 - i]
    IF i > Len(a) \/ i > idx THEN acc
    ELSE LET j == idx + 1 - i
         IN  IF j > Len(b) THEN ConvSum(a, b, idx, i + 1, acc, n)
             ELSE ConvSum(a, b, idx, i + 1,
                          (acc + MulMod(a[i], b[j], n)) % n, n)

PolyMul(a, b, n) ==
    IF a = <<>> \/ b = <<>> THEN <<>>
    ELSE Normalize(<<>> \o [idx \in 1..(Len(a) + Len(b) - 1) |->
                                ConvSum(a, b, idx, 1, 0, n)])

RECURSIVE Horner(_, _, _, _, _)
Horner(p, x, i, acc, n) ==
    \* the accumulator is bound to its value at every step
    IF i = 0 THEN acc
    ELSE CHOOSE r \in {Horner(p, x, i - 1, a2, n) :
                          a2 \in {(MulMod(acc, x, n) + p[i]) % n}} : TRUE

PolyEval(p, x, n) == Horner(p, x % n, Len(p), 0, n)

multipoint_evaluate(p, points, n) ==
    <<>> \o [i \in 1..Len(points) |-> PolyEval(p, points[i], n)]

(***************************************************************************)
(* product_tree                                                            *)
(***************************************************************************)
SplitPoint(len) == len \div 2

\* product_tree with the base case taken one leaf too early
RECURSIVE product_treeEarlyBase(_, _)
product_treeEarlyBase(leaves, n) ==
    IF leaves = <<>> THEN None
    ELSE IF Len(leaves) <= 2 THEN Some(leaves[1])
    ELSE LET mid == SplitPoint(Len(leaves))
             left == product_treeEarlyBase(SubSeq(leaves, 1, mid), n)
             right == product_treeEarlyBase(SubSeq(leaves, mid + 1, Len(leaves)), n)
         IN  Some(PolyMul(Val(left), Val(right), n))

RECURSIVE product_tree(_, _)
product_tree(leaves, n) ==
    IF leaves = <<>> THEN None
    ELSE IF Len(leaves) = 1 THEN Some(leaves[1])
    ELSE LET mid == SplitPoint(Len(leaves))
             left == product_tree(SubSeq(leaves, 1, mid), n)
             right == product_tree(SubSeq(leaves, mid + 1, Len(leaves)), n)
         IN  Some(PolyMul(Val(left), Val(right), n))

Leaves(l, n) == <<>> \o [i \in 1..l |-> LinearPoly(i, n)]

\* evaluation points one interval too far: k*L for k = 1..L
PointsShifted(l) == <<>> \o [i \in 1..l |-> i * l]

Points(l) == <<>> \o [i \in 1..l |-> (i - 1) * l]

(***************************************************************************)
(* Step size selection and the memory clamp.                               *)
(***************************************************************************)
Truthy(o) == IsSome(o) /\ Val(o) # 0

\* the square root rounded down instead of up
CeilSqrtFloor(b) == isqrt(b)

CeilSqrt(b) ==
    LET sqrt_B == isqrt(b)
    IN  IF sqrt_B * sqrt_B < b THEN sqrt_B + 1 ELSE sqrt_B

DefaultL(n) ==
    LET sqrt_N == isqrt(n)
        root_4_N == isqrt(sqrt_N)
    IN  root_4_N + 1

InitialL(n, b) == IF Truthy(b) THEN CeilSqrt(Val(b)) ELSE DefaultL(n)

TargetSource(b) == IF Truthy(b) THEN "bound" ELSE "default N^(1/4)"

N_bytes(n) == bit_length(n) \div 8

CostPerL(n) ==
    LET base_cost == 256 + (4 * N_bytes(n))
    IN  base_cost * 8

\* the overhead subtracted the wrong way round
MemLimitSign(n, m) ==
    LET available_memory == FIXED_OVERHEAD - m
    IN  IF available_memory <= 0 THEN MINIMAL_L
        ELSE available_memory \div CostPerL(n)

MemLimit(n, m) ==
    LET available_memory == m - FIXED_OVERHEAD
    IN  IF available_memory <= 0 THEN MINIMAL_L
        ELSE available_memory \div CostPerL(n)

\* the comparison of the clamp turned round
ClampLFlipped(l, limit) == IF l < limit THEN limit ELSE l

ClampL(l, limit) == IF l > limit THEN limit ELSE l

FinalL(n, b, m) ==
    IF Truthy(m) THEN ClampL(InitialL(n, b), MemLimit(n, Val(m)))
    ELSE InitialL(n, b)

(***************************************************************************)
(* Factor extraction.                                                      *)
(***************************************************************************)
TrialRange(n) == 2..n

TrialDivision(n) ==
    LET divs == {i \in TrialRange(n) : n % i = 0}
    IN  IF divs = {} THEN None
        ELSE Some(CHOOSE i \in divs : \A j \in divs : i <= j)

RECURSIVE ProdMod(_, _, _, _)
ProdMod(vs, i, acc, n) ==
    IF i > Len(vs) THEN acc
    ELSE CHOOSE r \in {ProdMod(vs, i + 1, a2, n) :
                          a2 \in {MulMod(acc, vs[i], n)}} : TRUE

Accumulate(vs, n) == IF vs = <<>> THEN 1 ELSE ProdMod(vs, 2, vs[1], n)

\* the upper comparison made non-strict
IsProperLoose(d, n) == 1 < d /\ d <= n

IsProper(d, n) == 1 < d /\ d < n

ScanRange(l) == 1..l

ScanInterval(kk, l, n) ==
    LET start_val == kk * l
        hits == {j \in ScanRange(l) : IsProper(gcd(start_val + j, n), n)}
    IN  IF hits = {} THEN None
        ELSE LET j == CHOOSE x \in hits : \A y \in hits : x <= y
             IN  Some(gcd(start_val + j, n))

(***************************************************************************)
(* Inputs of a direct call of pollard_strassen.                            *)
(***************************************************************************)
Targets ==
    (1..MaxSmallN) \cup {997, 1000}
    \cup (1001..(1000 + MaxBigSpan))
    \cup {1147, 1155, 1369, 3837523}

BoundInputs ==
    {None, Some(0)} \cup {Some(b) : b \in 1..MaxB}
    \cup {Some(100), Some(150), Some(1600), Some(1100000)}

MemoryInputs ==
    {None, Some(0 - 1), Some(0), Some(1), Some(FIXED_OVERHEAD),
     Some(FIXED_OVERHEAD + 1)}
    \cup {Some(FIXED_OVERHEAD + j * MemStep) : j \in 1..MaxMemSteps}

Feasible(n, b, m) == n <= SMALL_N_LIMIT \/ FinalL(n, b, m) <= MaxL

CoreIdle(p) ==
    /\ pc = p
    /\ L = 0
    /\ L_pre = 0
    /\ target_source = ""
    /\ L_mem_limit = None
    /\ coverage = 0
    /\ poly = None
    /\ values = <<>>
    /\ g = None
    /\ k = 0
    /\ result = None
    /\ via = ""

NoArgs == [N |-> <<>>, bound |-> None, max_memory |-> None,
           free_ram |-> None, prove |-> None]

Init ==
    /\ N \in Targets
    /\ B \in BoundInputs
    /\ max_memory \in MemoryInputs
    /\ Feasible(N, B, max_memory)
    /\ CoreIdle("start")
    /\ cli_pc = "api"
    /\ args = NoArgs
    /\ target = None
    /\ bound = None
    /\ max_mem_bytes = None
    /\ exit_status = None
    /\ cli_error = ""
    /\ core_calls = 1

(***************************************************************************)
(* The phases of pollard_strassen.                                         *)
(***************************************************************************)
SelectStepSize ==
    /\ pc = "start"
    /\ L' = InitialL(N, B)
    /\ L_pre' = InitialL(N, B)
    /\ target_source' = TargetSource(B)
    /\ pc' = "selected"
    /\ UNCHANGED <<L_mem_limit, coverage, poly, values, g, k, result, via>>
    /\ UNCHANGED <<inputVars, cliVars>>

ApplyMemoryConstraints ==
    /\ pc = "selected"
    /\ IF Truthy(max_memory)
       THEN /\ L_mem_limit' = Some(MemLimit(N, Val(max_memory)))
            /\ L' = ClampL(L, MemLimit(N, Val(max_memory)))
       ELSE /\ L_mem_limit' = None
            /\ L' = L
    /\ coverage' = L' * L'
    /\ pc' = "clamped"
    /\ UNCHANGED <<L_pre, target_source, poly, values, g, k, result, via>>
    /\ UNCHANGED <<inputVars, cliVars>>

SmallN ==
    /\ pc = "clamped"
    /\ N <= SMALL_N_LIMIT
    /\ result' = TrialDivision(N)
    /\ via' = "trial"
    /\ pc' = "done"
    /\ UNCHANGED <<L, L_pre, target_source, L_mem_limit, coverage, poly,
                   values, g, k>>
    /\ UNCHANGED <<inputVars, cliVars>>

BuildPolynomial ==
    /\ pc = "clamped"
    /\ N > SMALL_N_LIMIT
    /\ LET p == product_tree(Leaves(L, N), N)
       IN  /\ poly' = p
           \* poly.degree() on None raises AttributeError
           /\ pc' = IF IsSome(p) THEN "tree" ELSE "crashed"
    /\ UNCHANGED <<L, L_pre, target_source, L_mem_limit, coverage, values,
                   g, k, result, via>>
    /\ UNCHANGED <<inputVars, cliVars>>

Evaluate ==
    /\ pc = "tree"
    /\ values' = multipoint_evaluate(Val(poly), Points(L), N)
    /\ pc' = "evaluated"
    /\ UNCHANGED <<L, L_pre, target_source, L_mem_limit, coverage, poly, g,
                   k, result, via>>
    /\ UNCHANGED <<inputVars, cliVars>>

CheckGCD ==
    /\ pc = "evaluated"
    /\ LET gg == gcd(Accumulate(values, N), N)
       IN  /\ g' = Some(gg)
           /\ IF IsProper(gg, N)
              THEN /\ result' = Some(gg)
                   /\ via' = "aggregate"
                   /\ pc' = "done"
              ELSE IF gg = N
              THEN /\ result' = None
                   /\ via' = ""
                   /\ pc' = "backtrack"
              ELSE /\ result' = None
                   /\ via' = "none"
                   /\ pc' = "done"
    /\ k' = 0
    /\ UNCHANGED <<L, L_pre, target_source, L_mem_limit, coverage, poly,
                   values>>
    /\ UNCHANGED <<inputVars, cliVars>>

BacktrackStep ==
    /\ pc = "backtrack"
    /\ k < Len(values)
    /\ LET g_i == gcd(values[k + 1], N)
           scan == ScanInterval(k, L, N)
       IN  IF IsProper(g_i, N)
           THEN /\ result' = Some(g_i)
                /\ via' = "interval"
                /\ pc' = "done"
                /\ k' = k
           ELSE IF (g_i = N \/ g_i = 0) /\ IsSome(scan)
           THEN /\ result' = scan
                /\ via' = "scan"
                /\ pc' = "done"
                /\ k' = k
           ELSE /\ k' = k + 1
                /\ UNCHANGED <<result, via, pc>>
    /\ UNCHANGED <<L, L_pre, target_source, L_mem_limit, coverage, poly,
                   values, g>>
    /\ UNCHANGED <<inputVars, cliVars>>

BacktrackExhausted ==
    /\ pc = "backtrack"
    /\ k >= Len(values)
    /\ result' = None
    /\ via' = "exhausted"
    /\ pc' = "done"
    /\ UNCHANGED <<L, L_pre, target_source, L_mem_limit, coverage, poly,
                   values, g, k>>
    /\ UNCHANGED <<inputVars, cliVars>>

Core ==
    \/ SelectStepSize
    \/ ApplyMemoryConstraints
    \/ SmallN
    \/ BuildPolynomial
    \/ Evaluate
    \/ CheckGCD
    \/ BacktrackStep
    \/ BacktrackExhausted

(***************************************************************************)
(* The command line program (src/main.py).  Argument strings are sequences *)
(* of one-character strings.                                               *)
(***************************************************************************)
DigitChars == <<"0", "1", "2", "3", "4", "5", "6", "7", "8", "9">>

IsDigit(c) == \E d \in 1..10 : DigitChars[d] = c

DigitVal(c) == (CHOOSE d \in 1..10 : DigitChars[d] = c) - 1

RECURSIVE DecimalValue(_, _, _)
DecimalValue(s, i, acc) ==
    IF i > Len(s) THEN acc
    ELSE CHOOSE r \in {DecimalValue(s, i + 1, a2) :
                          a2 \in {10 * acc + DigitVal(s[i])}} : TRUE

\* int(s) for the strings of the model: None stands for ValueError
ParseInt(s) ==
    IF s = <<>> \/ \E i \in 1..Len(s) : ~IsDigit(s[i]) THEN None
    ELSE Some(DecimalValue(s, 1, 0))

UpperChar(c) ==
    CASE c = "k" -> "K"
      [] c = "m" -> "M"
      [] c = "g" -> "G"
      [] c = "t" -> "T"
      [] c = "b" -> "B"
      [] OTHER -> c

Upper(s) == <<>> \o [i \in 1..Len(s) |-> UpperChar(s[i])]

RECURSIVE RStrip(_, _)
RStrip(s, c) ==
    IF s # <<>> /\ s[Len(s)] = c THEN RStrip(SubSeq(s, 1, Len(s) - 1), c)
    ELSE s

RECURSIVE LStrip(_, _)
LStrip(s, c) ==
    IF s # <<>> /\ s[1] = c THEN LStrip(SubSeq(s, 2, Len(s)), c) ELSE s

Strip(s) == LStrip(RStrip(s, " "), " ")

EndsWith(s, suffix) ==
    /\ Len(s) >= Len(suffix)
    /\ SubSeq(s, Len(s) - Len(suffix) + 1, Len(s)) = suffix

Units == <<"K", "M", "G", "T">>

UnitValue(u) ==
    CASE u = "K" -> 1024
      [] u = "M" -> 1024 * 1024
      [] u = "G" -> 1024 * 1024 * 1024
      [] u = "T" -> 1024 * 1024 * 1024 * 1024

\* the result of parse_memory_limit: err is TRUE when it raises ValueError
parse_memory_limit(mem_str) ==
    IF mem_str = <<>> THEN [err |-> FALSE, val |-> None]
    ELSE
    LET up == Strip(Upper(mem_str))
        hits == {i \in 1..Len(Units) :
                     EndsWith(up, <<Units[i]>>) \/ EndsWith(up, <<Units[i], "B">>)}
        first == CHOOSE i \in hits : \A j \in hits : i <= j
        multiplier == IF hits = {} THEN 1 ELSE UnitValue(Units[first])
        digits == IF hits = {} THEN up
                  ELSE RStrip(RStrip(up, "B"), Units[first])
        number == ParseInt(digits)
    IN  IF number = None THEN [err |-> TRUE, val |-> None]
        ELSE [err |-> FALSE, val |-> Some(Val(number) * multiplier)]

ByteLength(n) == (bit_length(n) + 7) \div 8

\* (fixed_overhead, cost_per_L)
get_memory_cost_params(n) ==
    <<FIXED_OVERHEAD, 8 * (256 + 4 * ByteLength(n))>>

ArgGiven(a) == IsSome(a) /\ Val(a) # <<>>

Str(n) ==
    CASE n = 6 -> <<"6">>
      [] n = 7 -> <<"7">>
      [] n = 13 -> <<"1", "3">>
      [] n = 31 -> <<"3", "1">>
      [] n = 100 -> <<"1", "0", "0">>
      [] n = 1600 -> <<"1", "6", "0", "0">>
      [] n = 1001 -> <<"1", "0", "0", "1">>
      [] n = 1009 -> <<"1", "0", "0", "9">>
      [] n = 1147 -> <<"1", "1", "4", "7">>
      [] n = 1155 -> <<"1", "1", "5", "5">>
      [] n = 3837523 -> <<"3", "8", "3", "7", "5", "2", "3">>

CliTargets == {<<"x">>} \cup {Str(n) : n \in {6, 7, 1001, 1009, 1147, 1155, 3837523}}

CliBounds == {None, Some(<<>>), Some(Str(100)), Some(Str(1600)), Some(<<"1", "x">>)}

CliMemory ==
    {None, Some(<<"1">>), Some(<<"2", "5", "M">>),
     Some(<<"2", "5", "6", "0", "1", "K">>), Some(<<" ", "2", "6", "m", "b">>),
     Some(<<"5", "B">>), Some(<<"1", "G">>)}

\* None: --free-ram-percent 0; else int(target_utilization - vm.used)
CliFreeRam == {None, Some(0 - 5), Some(FIXED_OVERHEAD + 30000), Some(2000000000)}

CliProofs == {None, Some(Str(7)), Some(Str(13)), Some(Str(31)), Some(<<"0">>), Some(<<"p">>)}

InitCLI ==
    /\ args \in [N : CliTargets, bound : CliBounds, max_memory : CliMemory,
                 free_ram : CliFreeRam, prove : CliProofs]
    /\ cli_pc = "parse"
    /\ target = None
    /\ bound = None
    /\ max_mem_bytes = None
    /\ exit_status = None
    /\ cli_error = ""
    /\ core_calls = 0
    /\ N = 0
    /\ B = None
    /\ max_memory = None
    /\ CoreIdle("idle")

\* lines 43-52
CliParseArgs ==
    /\ cli_pc = "parse"
    /\ LET t == ParseInt(args.N)
           b == IF ArgGiven(args.bound) THEN ParseInt(Val(args.bound)) ELSE None
           m == IF ArgGiven(args.max_memory)
                THEN parse_memory_limit(Val(args.max_memory))
                ELSE [err |-> FALSE, val |-> None]
       IN  IF \/ t = None
              \/ (ArgGiven(args.bound) /\ b = None)
              \/ m.err
           THEN /\ cli_pc' = "except"
                /\ cli_error' = "ValueError"
                /\ target' = t
                /\ UNCHANGED <<bound, max_mem_bytes>>
           ELSE /\ cli_pc' = "free_ram"
                /\ target' = t
                /\ bound' = b
                /\ max_mem_bytes' = m.val
                /\ UNCHANGED cli_error
    /\ UNCHANGED <<args, exit_status, core_calls, inputVars, coreVars>>

\* lines 55-69
CliFreeRamLimit ==
    /\ cli_pc = "free_ram"
    /\ IF IsSome(args.free_ram)
       THEN LET calculated_limit ==
                    IF Val(args.free_ram) <= 0 THEN 1 ELSE Val(args.free_ram)
            IN  max_mem_bytes' =
                    IF IsSome(max_mem_bytes)
                    THEN Some(IF Val(max_mem_bytes) < calculated_limit
                              THEN Val(max_mem_bytes) ELSE calculated_limit)
                    ELSE Some(calculated_limit)
       ELSE UNCHANGED max_mem_bytes
    /\ cli_pc' = "prove"
    /\ UNCHANGED <<args, target, bound, exit_status, cli_error, core_calls,
                   inputVars, coreVars>>

\* lines 71-97
CliProve ==
    /\ cli_pc = "prove"
    /\ IF ~ArgGiven(args.prove)
       THEN /\ cli_pc' = "call"
            /\ UNCHANGED <<bound, exit_status, cli_error>>
       ELSE LET pf == ParseInt(Val(args.prove))
            IN  IF pf = None
                THEN /\ cli_pc' = "except"
                     /\ cli_error' = "ValueError"
                     /\ UNCHANGED <<bound, exit_status>>
                ELSE IF Val(pf) = 0
                THEN /\ cli_pc' = "exited"
                     /\ cli_error' = "ZeroDivisionError"
                     /\ exit_status' = Some(1)
                     /\ UNCHANGED bound
                ELSE IF Val(target) % Val(pf) # 0
                THEN /\ cli_pc' = "exited"
                     /\ cli_error' = "not a divisor"
                     /\ exit_status' = Some(1)
                     /\ UNCHANGED bound
                ELSE LET L_req == CeilSqrt(Val(pf))
                         params == get_memory_cost_params(Val(target))
                         required_mem == params[1] + (L_req * params[2])
                     IN  /\ bound' = pf
                         /\ IF IsSome(max_mem_bytes)
                               /\ Val(max_mem_bytes) < required_mem
                            THEN /\ cli_pc' = "exited"
                                 /\ cli_error' = "insufficient memory"
                                 /\ exit_status' = Some(1)
                            ELSE /\ cli_pc' = "call"
                                 /\ UNCHANGED <<exit_status, cli_error>>
    /\ UNCHANGED <<args, target, max_mem_bytes, core_calls, inputVars,
                   coreVars>>

\* line 99: result = pollard_strassen(target, B=bound, max_memory=max_mem_bytes)
CliCall ==
    /\ cli_pc = "call"
    /\ N' = Val(target)
    /\ B' = bound
    /\ max_memory' = max_mem_bytes
    /\ pc' = "start"
    /\ core_calls' = core_calls + 1
    /\ cli_pc' = "running"
    /\ UNCHANGED <<L, L_pre, target_source, L_mem_limit, coverage, poly,
                   values, g, k, result, via>>
    /\ UNCHANGED <<args, target, bound, max_mem_bytes, exit_status, cli_error>>

\* lines 101-111: the result is printed and the program ends normally
CliReport ==
    /\ cli_pc = "running"
    /\ pc = "done"
    /\ cli_pc' = "exited"
    /\ exit_status' = Some(0)
    /\ UNCHANGED <<args, target, bound, max_mem_bytes, cli_error, core_calls,
                   inputVars, coreVars>>

\* an exception that is no ValueError leaves the program with a traceback
CliTraceback ==
    /\ cli_pc = "running"
    /\ pc = "crashed"
    /\ cli_pc' = "exited"
    /\ cli_error' = "AttributeError"
    /\ exit_status' = Some(1)
    /\ UNCHANGED <<args, target, bound, max_mem_bytes, core_calls, inputVars,
                   coreVars>>

\* lines 107-111: ValueError is printed, then the program ends normally
CliExcept ==
    /\ cli_pc = "except"
    /\ cli_pc' = "exited"
    /\ exit_status' = Some(0)
    /\ UNCHANGED <<args, target, bound, max_mem_bytes, cli_error, core_calls,
                   inputVars, coreVars>>

Cli ==
    \/ CliParseArgs
    \/ CliFreeRamLimit
    \/ CliProve
    \/ CliCall
    \/ CliReport
    \/ CliTraceback
    \/ CliExcept

Next == Core

Spec == Init /\ [][Next]_vars

NextCLI == Cli \/ Core

(***************************************************************************)
(* product_tree called on its own, on the leaves (x+1), ..., (x+L) of a    *)
(* small modulus, beside the runs of pollard_strassen.                     *)
(***************************************************************************)
TreeModuli == (2..MaxModulus) \cup {97}

InitTree ==
    /\ N \in TreeModuli
    /\ L \in 1..MaxTreeL
    /\ pc = "leaves"
    /\ B = None
    /\ max_memory = None
    /\ L_pre = L
    /\ target_source = ""
    /\ L_mem_limit = None
    /\ coverage = L * L
    /\ poly = None
    /\ values = <<>>
    /\ g = None
    /\ k = 0
    /\ result = None
    /\ via = ""
    /\ cli_pc = "api"
    /\ args = NoArgs
    /\ target = None
    /\ bound = None
    /\ max_mem_bytes = None
    /\ exit_status = None
    /\ cli_error = ""
    /\ core_calls = 0

ApplyProductTree ==
    /\ pc = "leaves"
    /\ poly' = product_tree(Leaves(L, N), N)
    /\ pc' = "product"
    /\ UNCHANGED <<L, L_pre, target_source, L_mem_limit, coverage, values,
                   g, k, result, via>>
    /\ UNCHANGED <<inputVars, cliVars>>

NextTree == ApplyProductTree \/ Core

SpecTree == (Init \/ InitTree) /\ [][NextTree]_vars

SpecCLI == InitCLI /\ [][NextCLI]_vars

(***************************************************************************)
(* Definitions used by the properties.                                     *)
(***************************************************************************)
Returned == pc = "done"

AfterClamp == pc \notin {"idle", "start", "selected", "leaves", "product"}

IsPrime(n) == n > 1 /\ \A d \in 2..(n - 1) : n % d # 0

Min(a, b) == IF a < b THEN a ELSE b

\* N has a divisor p with 1 < p < N and p <= L^2
HasDivisorInRange == \E p \in 2..Min(N - 1, L * L) : N % p = 0

RECURSIVE DirectProduct(_, _, _, _, _)
DirectProduct(x, i, l, acc, n) ==
    \* the product of (x + j) for j = i..l, modulo n, times acc
    IF i > l THEN acc
    ELSE CHOOSE r \in {DirectProduct(x, i + 1, l, a2, n) :
                          a2 \in {MulMod(acc, (x + i) % n, n)}} : TRUE

RECURSIVE LeftProduct(_, _, _, _)
LeftProduct(leaves, i, acc, n) ==
    IF i > Len(leaves) THEN acc
    ELSE CHOOSE r \in {LeftProduct(leaves, i + 1, a2, n) :
                          a2 \in {PolyMul(acc, leaves[i], n)}} : TRUE

TestXs == (0..MaxX) \cup {N - 1, L * L}

PositiveBudgets ==
    {Val(m) : m \in {x \in MemoryInputs : IsSome(x) /\ Val(x) > 0}}

\* the limit as the memory model states it, with the byte length of N
StatedLMax(n, m) ==
    IF m - 26214400 > 0
    THEN (m - 26214400) \div (8 * (256 + 4 * ByteLength(n)))
    ELSE 1000

\* the limit with floor(bit_length(N) / 8) in place of the byte length
FlooredLMax(n, m) ==
    IF m - 26214400 > 0
    THEN (m - 26214400) \div (8 * (256 + 4 * (bit_length(n) \div 8)))
    ELSE 1000

SameSide(m1, m2) == (m1 <= 26214400) = (m2 <= 26214400)

\* p and q lie in one interval [kk*L + 1, kk*L + L] with kk in 0..L-1
IntervalOf(p, q) ==
    {kk \in 0..(L - 1) : /\ kk * L + 1 <= p /\ p <= kk * L + L
                         /\ kk * L + 1 <= q /\ q <= kk * L + L}

FactorPairs == {p \in 1..Min(N, L * L) : N % p = 0 /\ p # N \div p}

(***************************************************************************)
(* C1: whenever pollard_strassen returns a non-null g for a target N > 1,  *)
(* 1 < g < N and g divides N, so g * (N / g) = N.                          *)
(***************************************************************************)
C1_ReturnedFactorIsProper ==
    (Returned /\ N > 1 /\ IsSome(result)) =>
        /\ 1 < Val(result)
        /\ Val(result) < N
        /\ N % Val(result) = 0
        /\ Val(result) * (N \div Val(result)) = N

(***************************************************************************)
(* C2: for N > 1000 with a divisor p, 1 < p < N, p <= L^2 (L the final     *)
(* step size), the run ends by returning a g with 1 < g < N dividing N,    *)
(* never null; N = 3837523 without bound and budget returns 1093 or 3511.  *)
(***************************************************************************)
C2_PipelineFindsFactor ==
    /\ (pc \in {"done", "crashed"} /\ N > 1000 /\ HasDivisorInRange) =>
          /\ pc = "done"
          /\ IsSome(result)
          /\ 1 < Val(result)
          /\ Val(result) < N
          /\ N % Val(result) = 0
    /\ (pc \in {"done", "crashed"} /\ N = 3837523 /\ B = None
            /\ max_memory = None) =>
          result \in {Some(1093), Some(3511)}

C2_Witness ==
    /\ pc = "done"
    /\ N = 3837523
    /\ B = None
    /\ max_memory = None
    /\ L = 45
    /\ via = "aggregate"
    /\ result = Some(1093)

(***************************************************************************)
(* C3: for N in [2, 1000] the trial division returns the smallest divisor  *)
(* g of N with 2 <= g <= N, and returns null exactly when N is prime.      *)
(***************************************************************************)
C3_SmallNTrialDivision ==
    (Returned /\ N >= 2 /\ N <= 1000) =>
        /\ (result = None) <=> IsPrime(N)
        /\ IsSome(result) =>
              /\ 2 <= Val(result)
              /\ Val(result) <= N
              /\ N % Val(result) = 0
              /\ \A d \in 2..(Val(result) - 1) : N % d # 0

(***************************************************************************)
(* C4, as stated: for N = p*q > 1000 with p # q in one interval            *)
(* [kL+1, kL+L], k in 0..L-1, the aggregate GCD is N and the backtracking  *)
(* returns p or q.                                                         *)
(***************************************************************************)
C4_BacktrackingRecoversPOrQ ==
    \A p \in FactorPairs :
        (Returned /\ N > 1000 /\ IntervalOf(p, N \div p) # {}) =>
            /\ g = Some(N)
            /\ result \in {Some(p), Some(N \div p)}

(***************************************************************************)
(* C4, amended: for N = p*q > 1000 with p # q PRIME and in one interval    *)
(* [kL+1, kL+L], k in 0..L-1, the aggregate GCD is N, and the backtracking *)
(* reaches interval k and its linear scan returns p or q.                  *)
(***************************************************************************)
C4_BacktrackingRecoversPrimes ==
    \A p \in FactorPairs :
        (Returned /\ N > 1000 /\ IsPrime(p) /\ IsPrime(N \div p)
            /\ IntervalOf(p, N \div p) # {}) =>
            /\ g = Some(N)
            /\ via = "scan"
            /\ k \in IntervalOf(p, N \div p)
            /\ result \in {Some(p), Some(N \div p)}

C4_Witness ==
    /\ pc = "done"
    /\ N = 1147
    /\ L = 10
    /\ g = Some(1147)
    /\ via = "scan"
    /\ k = 3
    /\ result = Some(31)

C6_StepSizeAtLeastOne ==
    (AfterClamp /\ N > 1000) => (L >= 1 /\ pc # "crashed")

(***************************************************************************)
(* C7: before the clamp, with a bound B >= 1 the step size is the least L  *)
(* with L^2 >= B; without a bound, (L-1)^4 <= N < L^4.                     *)
(***************************************************************************)
C7_StepSizeSelection ==
    (pc \notin {"idle", "start", "leaves", "product"}) =>
        /\ (IsSome(B) /\ Val(B) >= 1) =>
              /\ L_pre * L_pre >= Val(B)
              /\ (L_pre - 1) * (L_pre - 1) < Val(B)
              /\ target_source = "bound"
        /\ (B = None) =>
              /\ (L_pre - 1) * (L_pre - 1) * (L_pre - 1) * (L_pre - 1) <= N
              /\ N < L_pre * L_pre * L_pre * L_pre

C7_Witness ==
    /\ pc = "selected"
    /\ B = Some(150)
    /\ L_pre = 13
    /\ target_source = "bound"

(***************************************************************************)
(* C8: the command line program ends with a non-zero status on malformed   *)
(* input, on a claimed factor that does not divide N and on a budget below *)
(* the memory a proof requires; in the last two cases pollard_strassen is  *)
(* never called.                                                           *)
(***************************************************************************)
C8_ErrorExitsAreNonZero ==
    (cli_pc = "exited") =>
        /\ (cli_error = "ValueError") => exit_status # Some(0)
        /\ (cli_error \in {"not a divisor", "insufficient memory"}) =>
              (exit_status # Some(0) /\ core_calls = 0)

(***************************************************************************)
(* C9: product_tree of the leaves (x+1), ..., (x+L) is their left-to-right *)
(* product modulo N: its degree is L, its value at x is the product of     *)
(* (x+i), i = 1..L, modulo N, and a single leaf is returned unchanged.     *)
(***************************************************************************)
C9_ProductTreeIsProduct ==
    IsSome(poly) =>
        /\ Degree(Val(poly)) = L
        /\ Val(poly) = LeftProduct(Leaves(L, N), 2, LinearPoly(1, N), N)
        /\ \A x \in TestXs :
              PolyEval(Val(poly), x, N) = DirectProduct(x, 1, L, 1, N)
        /\ (L = 1) => Val(poly) = <<1, 1>>

C9_Witness ==
    /\ pc = "product"
    /\ N = 97
    /\ L = 5
    /\ Degree(Val(poly)) = 5
    /\ PolyEval(Val(poly), 2, 97) = (3 * 4 * 5 * 6 * 7) % 97

(***************************************************************************)
(* C10, as stated: for fixed N and B the final step size is monotone in    *)
(* the budget: M1 <= M2, both positive, implies L(M1) <= L(M2).            *)
(***************************************************************************)
C10_MonotoneInBudget ==
    \A m2 \in PositiveBudgets :
        (AfterClamp /\ IsSome(max_memory) /\ Val(max_memory) > 0
            /\ Val(max_memory) <= m2) =>
            L <= FinalL(N, B, Some(m2))

(***************************************************************************)
(* C10, amended: for fixed N and B and positive budgets M1 <= M2 on the    *)
(* same side of the 25 MiB fixed overhead (both at most 25 MiB, or both    *)
(* above it), L(M1) <= L(M2).                                              *)
(***************************************************************************)
C10_MonotoneOnEachSide ==
    \A m2 \in PositiveBudgets :
        (AfterClamp /\ IsSome(max_memory) /\ Val(max_memory) > 0
            /\ Val(max_memory) <= m2 /\ SameSide(Val(max_memory), m2)) =>
            L <= FinalL(N, B, Some(m2))

C10_Witness ==
    /\ pc = "clamped"
    /\ B = Some(150)
    /\ max_memory = Some(26214400 + MemStep)
    /\ L = 2
    /\ FinalL(N, B, Some(26214400 + 2 * MemStep)) = 4

====
